---- MODULE Spec2Model ----
(***************************************************************************)
(* A model of the MITCH codec and framer of src/examples/example.c with    *)
(* the layouts of src/model/model.h.                                       *)
(*                                                                         *)
(* Numbers.  Every quantity the framer computes lies in 0 .. 2^31-1, where *)
(* size_t (32 bits or wider) and int (32 bits) agree with the integers;    *)
(* TLC's own integers are 32 bits wide and TLC reports an overflow as an   *)
(* error, so a run that ends without one shows that no computation left    *)
(* that range.  The 32 and 64 bit record fields do not fit TLC's integers: *)
(* such a value is held as the tuple of its base-256 digits, most          *)
(* significant first, and the host's memory order is modelled by hostLE.   *)
(***************************************************************************)
EXTENDS Integers, Sequences, FiniteSets, TLC

VARIABLES
    hostLE,          \* TRUE on a little-endian host (model.h:24-33)
    \* ---- the reader: mitch_recv_message and the mitch_recv_tcp it runs ----
    wire,            \* what the peer sent: [tag, count, num_ticks]
    consumed,        \* bytes taken from the socket so far
    nshort,          \* short recv() results so far (bounded by MaxShortReads)
    fill,            \* what every byte at `buffer` held before the call
    buffer,          \* caller memory at `buffer`, as the extents stored into it
    buffer_size,     \* the parameter buffer_size (the spec's max_len)
    pc,              \* "header" | "prefix" | "tail" | "body" | "done" | "idle"
    base,            \* offset of the running mitch_recv_tcp's buffer argument
    length,          \* its length argument
    total_received,  \* its local total_received
    received,        \* its local received: <<>> before the first recv, then <<r>>
    header,          \* the local MitchHeader of mitch_recv_message
    body_size,       \* the local body_size
    result,          \* the value returned (meaningful when pc = "done")
    \* ---- the writer: mitch_send_tcp ----
    spc,             \* "send" | "done" | "idle"
    slength,         \* the parameter length
    total_sent,      \* the local total_sent
    sent,            \* the local sent: <<>> before the first send, then <<r>>
    accepted,        \* the bytes the stream accepted, in order
    sresult,         \* the value returned (meaningful when spc = "done")
    \* ---- the body codecs: pack_*_body and unpack_*_body ----
    cpc,             \* "start" | "packed" | "unpacked" | "fault" | "idle"
    kind,            \* "trade" | "order" | "ticker" | "order_book"
    rec,             \* the record handed to the encoder
    volumes,         \* the volumes handed to pack_order_book_body
    packed,          \* the bytes the encoder wrote
    pack_len,        \* the value the encoder returned
    input_len,       \* how many of those bytes the decoder's input holds
    out,             \* the record the decoder filled
    out_volumes,     \* the volumes unpack_order_book_body filled
    unpack_len,      \* the value the decoder returned
    overread         \* how many bytes the decoder read past its input

recvVars == <<wire, consumed, nshort, fill, buffer, buffer_size, pc, base, length,
              total_received, received, header, body_size, result>>
sendVars == <<spc, slength, total_sent, sent, accepted, sresult>>
codecVars == <<cpc, kind, rec, volumes, packed, pack_len, input_len, out,
               out_volumes, unpack_len, overread>>
vars == <<hostLE, recvVars, sendVars, codecVars>>

\* ------------------------------------------------------------------ bounds

\* How many recv() calls of one mitch_recv_message may return fewer bytes than
\* were asked for; after that the socket delivers what is asked, or fails.
MaxShortReads == 3

\* How many bytes the writer is handed at most.
MaxSendLen == 40

\* ------------------------------------------------------- program constants

MITCH_MSG_TYPE_TRADE == 116
MITCH_MSG_TYPE_ORDER == 111
MITCH_MSG_TYPE_TICKER == 115
MITCH_MSG_TYPE_ORDER_BOOK == 113

\* ------------------------------------------------------------------- bytes

Byte == 0..255

\* What memory nothing has been stored to may hold.
GarbageBytes == {0, 255}

Reverse(s) == [i \in 1..Len(s) |-> s[Len(s) + 1 - i]]

\* The object representation of a value (its digits, most significant first)
\* in the host's memory, and back: what memcpy to and from &x does.
ToMemory(digits, le) == IF le THEN Reverse(digits) ELSE digits
FromMemory(bytes, le) == IF le THEN Reverse(bytes) ELSE bytes

\* htons/htonl/htobe64 and ntohs/ntohl/be64toh: a byte swap on a little-endian
\* host, nothing on a big-endian one.
HostToBE(digits, le) == IF le THEN Reverse(digits) ELSE digits
BEToHost(digits, le) == IF le THEN Reverse(digits) ELSE digits

\* The digits of a 16-bit value and the value of two digits.
Digits16(n) == <<n \div 256, n % 256>>
Value16(d) == 256 * d[1] + d[2]

\* ----------------------------------------------------------- the byte stream

\* Byte p of the stream the peer sent: the header (tag, six timestamp bytes,
\* count), then body bytes; the body of an order book carries num_ticks at
\* bytes 24-25.  Every other byte depends on its position.
StreamByte(w, p) ==
    IF p = 0 THEN w.tag
    ELSE IF p = 7 THEN w.count
    ELSE IF w.tag = MITCH_MSG_TYPE_ORDER_BOOK /\ p = 8 + 24 THEN Digits16(w.num_ticks)[1]
    ELSE IF w.tag = MITCH_MSG_TYPE_ORDER_BOOK /\ p = 8 + 25 THEN Digits16(w.num_ticks)[2]
    ELSE (37 * p + 11) % 256

\* ------------------------------------------------------------ caller memory

\* Memory at the pointer `buffer` is the list of extents stored so far: len
\* bytes at offset dst, taken from stream position src.  Two extents that
\* continue each other are one.  The function cannot tell how much memory the
\* caller owns there; buffer_size is what the caller declares.  recv() stores
\* through the kernel: a store past the caller's memory lands in what lies
\* behind it (recorded here like any store) or makes recv() fail with -1
\* (one of RecvResults).
Store(buf, dst, src, n) ==
    IF buf # <<>> /\ buf[Len(buf)].dst + buf[Len(buf)].len = dst
                  /\ buf[Len(buf)].src + buf[Len(buf)].len = src
    THEN [buf EXCEPT ![Len(buf)].len = @ + n]
    ELSE Append(buf, [dst |-> dst, src |-> src, len |-> n])

Covers(e, i) == e.dst <= i /\ i < e.dst + e.len

\* The byte at offset i: what the latest store covering i put there, or what
\* the memory held before (g).
BufAt(buf, w, g, i) ==
    LET ks == {k \in 1..Len(buf) : Covers(buf[k], i)}
    IN  IF ks = {} THEN g
        ELSE LET k == CHOOSE x \in ks : \A y \in ks : y <= x
             IN  StreamByte(w, buf[k].src + (i - buf[k].dst))

\* ------------------------------------------------------------- the socket

\* The sizes a short recv() or send() may have.
ChunkSizes == {1, 3, 10, 25, 65536}

\* What one recv() asked for `want` bytes may return: an error, end of stream,
\* all of them, or (while short results are allowed) fewer.
RecvResults(want, short) ==
    {0 - 1, 0, want}
        \cup (IF short < MaxShortReads THEN {c \in ChunkSizes : c < want} ELSE {})

\* ------------------------------------------------------- mitch_recv_tcp

\* A reader that takes only an error, not the end of the stream, as failure.
RecvFailedOnErrorOnly(r) == r < 0

\* received <= 0: error or connection closed.
RecvFailed(r) == r <= 0

\* A reader that stores every recv() at the start of its buffer.
RecvDstAtStart(b, t) == b

\* buffer + total_received: where recv() stores.
RecvDst(b, t) == b + t

\* while (total_received < length)
RecvLoop(t, len) == t < len

\* ----------------------------------------------------- mitch_recv_message

HeaderSize == 8
PrefixSize == 32

UnpackHeader(buf, w, g) ==
    [message_type |-> BufAt(buf, w, g, 0),
     timestamp |-> [i \in 1..6 |-> BufAt(buf, w, g, i)],
     count |-> BufAt(buf, w, g, 7)]

\* A reader that accepts any non-empty order-book array.
OrderBookCountAtLeastOne(count) == count >= 1

\* header.count != 1 is a protocol violation for an order book.
OrderBookCountOk(count) == count = 1

\* memcpy(&num_ticks_be, buffer + 8 + 24, 2); num_ticks = ntohs(num_ticks_be)
NumTicksOf(buf, w, g, le) ==
    Value16(BEToHost(FromMemory(<<BufAt(buf, w, g, 8 + 24),
                                  BufAt(buf, w, g, 8 + 25)>>, le), le))

\* A value at the width of size_t, taken at its narrowest (32 bits): x mod
\* 2^32, computed in 16-bit halves because 2^32 is no TLC integer.
SizeT(x) == (((x \div 65536) % 65536) * 65536) + (x % 65536)

\* The product computed in the 16 bits of num_ticks.
VolumesSize16(num_ticks) == (num_ticks * 4) % 65536

\* size_t volumes_size = (size_t)num_ticks * 4
VolumesSize(num_ticks) == SizeT(num_ticks * 4)

\* body_size = (size_t)header.count * 32
FixedBodySize(count) == SizeT(count * 32)

\* A size check that forgets the header.
TooSmallBodyOnly(bs, cap) == bs > cap

\* 8 + body_size > buffer_size
TooSmall(bs, cap) == SizeT(8 + bs) > cap

\* return v, out of the mitch_recv_tcp that just completed (a size_t below
\* 2^31 is the same int)
Return(v) ==
    /\ pc' = "done"
    /\ result' = v
    /\ total_received' = length
    /\ UNCHANGED <<base, length>>

\* mitch_recv_tcp(socket, buffer + b, n) is entered
Call(stage, b, n) ==
    /\ pc' = stage
    /\ base' = b
    /\ length' = n
    /\ total_received' = 0
    /\ UNCHANGED result

\* recv() returned r <= 0: mitch_recv_tcp returns -1 and so does its caller.
RecvFail(r) ==
    /\ RecvFailed(r)
    /\ received' = <<r>>
    /\ pc' = "done"
    /\ result' = 0 - 1
    /\ UNCHANGED <<consumed, nshort, buffer, base, length, total_received,
                   header, body_size>>

\* recv() stored r bytes taken from the stream.
RecvStore(r) ==
    /\ ~RecvFailed(r)
    /\ received' = <<r>>
    /\ buffer' = Store(buffer, RecvDst(base, total_received), consumed, r)
    /\ consumed' = consumed + r
    /\ nshort' = IF r < length - total_received THEN nshort + 1 ELSE nshort

\* ... and the loop goes round again.
RecvMore(r) ==
    /\ RecvStore(r)
    /\ RecvLoop(total_received + r, length)
    /\ total_received' = total_received + r
    /\ UNCHANGED <<pc, base, length, header, body_size, result>>

\* ... and the loop is left: mitch_recv_tcp returns 0.
RecvLast(r) ==
    /\ RecvStore(r)
    /\ ~RecvLoop(total_received + r, length)

\* Lines 257-302 after the header has arrived.
AfterHeader ==
    LET h == UnpackHeader(buffer', wire, fill)
    IN  /\ header' = h
        /\ IF h.message_type = MITCH_MSG_TYPE_ORDER_BOOK
           THEN /\ body_size' = body_size
                /\ IF ~OrderBookCountOk(h.count)
                   THEN Return(0 - 3)
                   ELSE Call("prefix", HeaderSize, PrefixSize)
           ELSE LET bs == FixedBodySize(h.count)
                IN  /\ body_size' = bs
                    /\ IF TooSmall(bs, buffer_size) THEN Return(0 - 2)
                       ELSE IF bs > 0 THEN Call("body", HeaderSize, bs)
                       ELSE Return(SizeT(8 + bs))

\* Lines 272-289 after the order book's 32-byte prefix has arrived.
AfterPrefix ==
    LET num_ticks == NumTicksOf(buffer', wire, fill, hostLE)
        volumes_size == VolumesSize(num_ticks)
        bs == SizeT(PrefixSize + volumes_size)
    IN  /\ body_size' = bs
        /\ UNCHANGED header
        /\ IF TooSmall(bs, buffer_size) THEN Return(0 - 2)
           ELSE IF volumes_size > 0
                THEN Call("tail", HeaderSize + PrefixSize, volumes_size)
           ELSE Return(SizeT(8 + bs))

\* Line 304 after the last body byte has arrived.
AfterBody ==
    /\ UNCHANGED <<header, body_size>>
    /\ Return(SizeT(8 + body_size))

RecvHeader ==
    /\ pc = "header"
    /\ \E r \in RecvResults(length - total_received, nshort) :
          \/ RecvFail(r)
          \/ RecvMore(r)
          \/ RecvLast(r) /\ AfterHeader
    /\ UNCHANGED <<hostLE, wire, fill, buffer_size, sendVars, codecVars>>

RecvPrefix ==
    /\ pc = "prefix"
    /\ \E r \in RecvResults(length - total_received, nshort) :
          \/ RecvFail(r)
          \/ RecvMore(r)
          \/ RecvLast(r) /\ AfterPrefix
    /\ UNCHANGED <<hostLE, wire, fill, buffer_size, sendVars, codecVars>>

RecvTail ==
    /\ pc = "tail"
    /\ \E r \in RecvResults(length - total_received, nshort) :
          \/ RecvFail(r)
          \/ RecvMore(r)
          \/ RecvLast(r) /\ AfterBody
    /\ UNCHANGED <<hostLE, wire, fill, buffer_size, sendVars, codecVars>>

RecvBody ==
    /\ pc = "body"
    /\ \E r \in RecvResults(length - total_received, nshort) :
          \/ RecvFail(r)
          \/ RecvMore(r)
          \/ RecvLast(r) /\ AfterBody
    /\ UNCHANGED <<hostLE, wire, fill, buffer_size, sendVars, codecVars>>

\* --------------------------------------------------- the reader's inputs

\* The four message types and a tag that is none of them ('x').
Tags == {MITCH_MSG_TYPE_TRADE, MITCH_MSG_TYPE_ORDER, MITCH_MSG_TYPE_TICKER,
         MITCH_MSG_TYPE_ORDER_BOOK, 120}
Counts == {0, 1, 2, 255}
NumTicks == {0, 1, 2, 500, 16384, 65535}
BufferSizes == {0, 7, 8, 39, 40, 41, 44, 48, 71, 72, 2040, 8167, 8168,
                65576, 262179, 262180}

Wires ==
    {[tag |-> t, count |-> c, num_ticks |-> n] :
        t \in Tags \ {MITCH_MSG_TYPE_ORDER_BOOK}, c \in Counts, n \in {0}}
    \cup {[tag |-> t, count |-> c, num_ticks |-> n] :
        t \in {MITCH_MSG_TYPE_ORDER_BOOK}, c \in Counts, n \in NumTicks}

CodecIdle ==
    /\ cpc = "idle" /\ kind = "none" /\ rec = <<>> /\ volumes = <<>>
    /\ packed = <<>> /\ pack_len = 0 /\ input_len = 0 /\ out = <<>>
    /\ out_volumes = <<>> /\ unpack_len = 0 /\ overread = 0

SendIdle ==
    /\ spc = "idle" /\ slength = 0 /\ total_sent = 0 /\ sent = <<>>
    /\ accepted = <<>> /\ sresult = 0

\* mitch_recv_message has been entered and runs mitch_recv_tcp(socket, buffer, 8).
InitRecv ==
    /\ hostLE \in BOOLEAN
    /\ wire \in Wires
    /\ fill \in GarbageBytes
    /\ buffer_size \in BufferSizes
    /\ consumed = 0
    /\ nshort = 0
    /\ buffer = <<>>
    /\ pc = "header"
    /\ base = 0
    /\ length = HeaderSize
    /\ total_received = 0
    /\ received = <<>>
    /\ header = [message_type |-> 0, timestamp |-> <<0, 0, 0, 0, 0, 0>>, count |-> 0]
    /\ body_size = 0
    /\ result = 0
    /\ SendIdle
    /\ CodecIdle

NextRecv == RecvHeader \/ RecvPrefix \/ RecvTail \/ RecvBody

SpecRecv == InitRecv /\ [][NextRecv]_vars

\* ------------------------------------------------------- mitch_send_tcp

\* Byte i of the caller's data.
DataByte(i) == (37 * i + 11) % 256

\* What one send() offered `want` bytes may return.
SendResults(want) == {0 - 1, 0} \cup 1..want

\* A writer that takes only an error, not a send of nothing, as failure.
SendFailedOnErrorOnly(r) == r < 0

\* sent <= 0
SendFailed(r) == r <= 0

\* data + total_sent: the first byte offered to send().
SendSrc(t) == t

\* while (total_sent < length): one send() and what follows it.
SendStep ==
    /\ spc = "send"
    /\ total_sent < slength
    /\ \E r \in SendResults(slength - total_sent) :
          /\ sent' = <<r>>
          /\ IF SendFailed(r)
             THEN /\ spc' = "done"
                  /\ sresult' = 0 - 1
                  /\ UNCHANGED <<total_sent, accepted>>
             ELSE /\ accepted' = accepted \o [i \in 1..r |-> DataByte(SendSrc(total_sent) + i - 1)]
                  /\ total_sent' = total_sent + r
                  /\ UNCHANGED <<spc, sresult>>
    /\ UNCHANGED <<hostLE, slength, recvVars, codecVars>>

\* The loop is left: return 0.
SendReturn ==
    /\ spc = "send"
    /\ ~(total_sent < slength)
    /\ spc' = "done"
    /\ sresult' = 0
    /\ UNCHANGED <<hostLE, slength, total_sent, sent, accepted, recvVars, codecVars>>

RecvIdle ==
    /\ wire = [tag |-> 0, count |-> 0, num_ticks |-> 0]
    /\ consumed = 0 /\ nshort = 0 /\ fill = 0 /\ buffer = <<>> /\ buffer_size = 0
    /\ pc = "idle" /\ base = 0 /\ length = 0 /\ total_received = 0
    /\ received = <<>>
    /\ header = [message_type |-> 0, timestamp |-> <<0, 0, 0, 0, 0, 0>>, count |-> 0]
    /\ body_size = 0 /\ result = 0

\* mitch_send_tcp has been entered.
InitSend ==
    /\ hostLE \in BOOLEAN
    /\ slength \in 0..MaxSendLen
    /\ spc = "send"
    /\ total_sent = 0
    /\ sent = <<>>
    /\ accepted = <<>>
    /\ sresult = 0
    /\ RecvIdle
    /\ CodecIdle

NextSend == SendStep \/ SendReturn

\* send() returns and the thread runs on: the writer takes its next step.
SpecSend == InitSend /\ [][NextSend]_vars /\ WF_vars(NextSend)

\* ========================================================= the body codecs

\* x = htobe64(v) (or htonl, htons); memcpy(ptr, &x, n)
PutInt(digits, le) == ToMemory(HostToBE(digits, le), le)

\* memcpy(&v, ptr, n); v = be64toh(v) (or ntohl, ntohs)
GetInt(bytes, le) == BEToHost(FromMemory(bytes, le), le)

\* write_double_be: the double's bytes copied into a uint64_t, htobe64, memcpy
WriteDoubleBE(value, le) ==
    ToMemory(HostToBE(FromMemory(ToMemory(value, le), le), le), le)

\* read_double_be: memcpy into a uint64_t, be64toh, its bytes copied into a double
ReadDoubleBE(bytes, le) ==
    FromMemory(ToMemory(BEToHost(FromMemory(bytes, le), le), le), le)

\* memset(ptr, 0, n)
Zeros(n) == [i \in 1..n |-> 0]

\* The n bytes at offset off of the decoder's input; a byte past the end of
\* the input is whatever the memory after it holds (g).
In(input, off, n, g) ==
    [i \in 1..n |-> IF off + i <= Len(input) THEN input[off + i] ELSE g]

\* A pack_trade_body that writes trade_id before quantity.
PackTradeBodySwapped(trade, le) ==
    PutInt(trade.ticker_id, le) \o WriteDoubleBE(trade.price, le)
        \o PutInt(trade.trade_id, le) \o PutInt(trade.quantity, le)
        \o <<trade.side>> \o Zeros(7)

PackTradeBody(trade, le) ==
    PutInt(trade.ticker_id, le) \o WriteDoubleBE(trade.price, le)
        \o PutInt(trade.quantity, le) \o PutInt(trade.trade_id, le)
        \o <<trade.side>> \o Zeros(7)

PackOrderBody(order, le) ==
    PutInt(order.ticker_id, le) \o PutInt(order.order_id, le)
        \o WriteDoubleBE(order.price, le) \o PutInt(order.quantity, le)
        \o <<order.type_and_side>> \o order.expiry \o <<order.padding>>

PackTickerBody(ticker, le) ==
    PutInt(ticker.ticker_id, le) \o WriteDoubleBE(ticker.bid_price, le)
        \o WriteDoubleBE(ticker.ask_price, le)
        \o PutInt(ticker.bid_volume, le) \o PutInt(ticker.ask_volume, le)

PackOrderBookBody(order_book, vols, le) ==
    LET prefix == PutInt(order_book.ticker_id, le)
                     \o WriteDoubleBE(order_book.first_tick, le)
                     \o WriteDoubleBE(order_book.tick_size, le)
                     \o PutInt(Digits16(order_book.num_ticks), le)
                     \o <<order_book.side>> \o Zeros(5)
        enc == [i \in 1..order_book.num_ticks |-> PutInt(vols[i], le)]
    IN  [j \in 1..(32 + 4 * order_book.num_ticks) |->
            IF j <= 32 THEN prefix[j]
            ELSE enc[((j - 33) \div 4) + 1][((j - 33) % 4) + 1]]

UnpackTradeBody(input, le, g) ==
    [ticker_id |-> GetInt(In(input, 0, 8, g), le),
     price |-> ReadDoubleBE(In(input, 8, 8, g), le),
     quantity |-> GetInt(In(input, 16, 4, g), le),
     trade_id |-> GetInt(In(input, 20, 4, g), le),
     side |-> In(input, 24, 1, g)[1],
     padding |-> In(input, 25, 7, g)]

UnpackOrderBody(input, le, g) ==
    [ticker_id |-> GetInt(In(input, 0, 8, g), le),
     order_id |-> GetInt(In(input, 8, 4, g), le),
     price |-> ReadDoubleBE(In(input, 12, 8, g), le),
     quantity |-> GetInt(In(input, 20, 4, g), le),
     type_and_side |-> In(input, 24, 1, g)[1],
     expiry |-> In(input, 25, 6, g),
     padding |-> In(input, 31, 1, g)[1]]

UnpackTickerBody(input, le, g) ==
    [ticker_id |-> GetInt(In(input, 0, 8, g), le),
     bid_price |-> ReadDoubleBE(In(input, 8, 8, g), le),
     ask_price |-> ReadDoubleBE(In(input, 16, 8, g), le),
     bid_volume |-> GetInt(In(input, 24, 4, g), le),
     ask_volume |-> GetInt(In(input, 28, 4, g), le)]

\* The record, the volumes and the value returned.
UnpackOrderBookBody(input, le, g) ==
    LET num_ticks == Value16(GetInt(In(input, 24, 2, g), le))
    IN  [order_book |->
            [ticker_id |-> GetInt(In(input, 0, 8, g), le),
             first_tick |-> ReadDoubleBE(In(input, 8, 8, g), le),
             tick_size |-> ReadDoubleBE(In(input, 16, 8, g), le),
             num_ticks |-> num_ticks,
             side |-> In(input, 26, 1, g)[1],
             padding |-> In(input, 27, 5, g)],
         volumes |-> [i \in 1..num_ticks |->
                         GetInt(In(input, 32 + 4 * (i - 1), 4, g), le)],
         len |-> 32 + num_ticks * 4]

PackTrade ==
    /\ cpc = "start" /\ kind = "trade"
    /\ packed' = PackTradeBody(rec, hostLE)
    /\ pack_len' = 32
    /\ cpc' = "packed"
    /\ UNCHANGED <<hostLE, kind, rec, volumes, input_len, out, out_volumes,
                   unpack_len, overread, recvVars, sendVars>>

PackOrder ==
    /\ cpc = "start" /\ kind = "order"
    /\ packed' = PackOrderBody(rec, hostLE)
    /\ pack_len' = 32
    /\ cpc' = "packed"
    /\ UNCHANGED <<hostLE, kind, rec, volumes, input_len, out, out_volumes,
                   unpack_len, overread, recvVars, sendVars>>

PackTicker ==
    /\ cpc = "start" /\ kind = "ticker"
    /\ packed' = PackTickerBody(rec, hostLE)
    /\ pack_len' = 32
    /\ cpc' = "packed"
    /\ UNCHANGED <<hostLE, kind, rec, volumes, input_len, out, out_volumes,
                   unpack_len, overread, recvVars, sendVars>>

PackOrderBook ==
    /\ cpc = "start" /\ kind = "order_book"
    /\ packed' = PackOrderBookBody(rec, volumes, hostLE)
    /\ pack_len' = 32 + rec.num_ticks * 4
    /\ cpc' = "packed"
    /\ UNCHANGED <<hostLE, kind, rec, volumes, input_len, out, out_volumes,
                   unpack_len, overread, recvVars, sendVars>>

UnpackTrade ==
    /\ cpc = "packed" /\ kind = "trade"
    /\ input_len' = Len(packed)
    /\ out' = UnpackTradeBody(packed, hostLE, 0)
    /\ unpack_len' = 32
    /\ cpc' = "unpacked"
    /\ UNCHANGED <<hostLE, kind, rec, volumes, packed, pack_len, out_volumes,
                   overread, recvVars, sendVars>>

UnpackOrder ==
    /\ cpc = "packed" /\ kind = "order"
    /\ input_len' = Len(packed)
    /\ out' = UnpackOrderBody(packed, hostLE, 0)
    /\ unpack_len' = 32
    /\ cpc' = "unpacked"
    /\ UNCHANGED <<hostLE, kind, rec, volumes, packed, pack_len, out_volumes,
                   overread, recvVars, sendVars>>

UnpackTicker ==
    /\ cpc = "packed" /\ kind = "ticker"
    /\ input_len' = Len(packed)
    /\ out' = UnpackTickerBody(packed, hostLE, 0)
    /\ unpack_len' = 32
    /\ cpc' = "unpacked"
    /\ UNCHANGED <<hostLE, kind, rec, volumes, packed, pack_len, out_volumes,
                   overread, recvVars, sendVars>>

\* The input the order-book decoder is handed: the encoder's bytes, or a
\* prefix of them that still holds the 32-byte prefix.
InputLens(bytes, num_ticks) ==
    {Len(bytes)} \cup (IF num_ticks > 0 THEN {32, Len(bytes) - 1} ELSE {})

\* unpack_order_book_body takes no input length: it reads 32 + 4*num_ticks
\* bytes from wherever `buffer` points.  Reading past the input either yields
\* the bytes that lie there or faults.
UnpackOrderBook ==
    /\ cpc = "packed" /\ kind = "order_book"
    /\ \E n \in InputLens(packed, rec.num_ticks), g \in GarbageBytes :
          LET r == UnpackOrderBookBody(SubSeq(packed, 1, n), hostLE, g)
              over == IF r.len > n THEN r.len - n ELSE 0
          IN  /\ input_len' = n
              /\ overread' = over
              /\ \/ /\ out' = r.order_book
                    /\ out_volumes' = r.volumes
                    /\ unpack_len' = r.len
                    /\ cpc' = "unpacked"
                 \/ /\ over > 0
                    /\ cpc' = "fault"
                    /\ UNCHANGED <<out, out_volumes, unpack_len>>
    /\ UNCHANGED <<hostLE, kind, rec, volumes, packed, pack_len, recvVars, sendVars>>

\* ------------------------------------------------------ the codecs' inputs

U64s == {<<0, 0, 111, 0, 28, 208, 0, 0>>, <<255, 254, 253, 252, 251, 250, 249, 248>>}
\* 1.0850 and a NaN
Doubles == {<<63, 241, 92, 40, 245, 194, 143, 92>>, <<127, 248, 0, 0, 0, 0, 0, 1>>}
U32s == {<<0, 15, 66, 64>>, <<0, 0, 48, 57>>, <<255, 255, 255, 254>>}
Sides == {0, 1}
Paddings == {0, 255}

Trades ==
    {[ticker_id |-> t, price |-> p, quantity |-> q, trade_id |-> i, side |-> s,
      padding |-> [k \in 1..7 |-> x]] :
        t \in U64s, p \in Doubles, q \in U32s, i \in U32s, s \in Sides, x \in Paddings}

Orders ==
    {[ticker_id |-> t, order_id |-> i, price |-> p, quantity |-> q,
      type_and_side |-> ts, expiry |-> <<1, 2, 3, 4, 5, 6>>, padding |-> x] :
        t \in U64s, i \in U32s, p \in Doubles, q \in U32s, ts \in {0, 3, 7},
        x \in Paddings}

Ticks ==
    {[ticker_id |-> t, bid_price |-> b, ask_price |-> a, bid_volume |-> bv,
      ask_volume |-> av] :
        t \in U64s, b \in Doubles, a \in Doubles, bv \in U32s, av \in U32s}

SmallTicks == {0, 1, 2}
LargeTicks == {500, 65535}

OrderBooks ==
    {[ticker_id |-> t, first_tick |-> f, tick_size |-> z, num_ticks |-> n,
      side |-> s, padding |-> [k \in 1..5 |-> x]] :
        t \in U64s, f \in Doubles, z \in Doubles, n \in SmallTicks, s \in Sides,
        x \in Paddings}
    \cup
    {[ticker_id |-> <<255, 254, 253, 252, 251, 250, 249, 248>>,
      first_tick |-> <<127, 248, 0, 0, 0, 0, 0, 1>>,
      tick_size |-> <<127, 248, 0, 0, 0, 0, 0, 1>>, num_ticks |-> n,
      side |-> 1, padding |-> [k \in 1..5 |-> 255]] : n \in LargeTicks}

\* A volumes array of n entries, each telling its index.
Vols(n, seed) ==
    [i \in 1..n |-> <<seed, (i \div 65536) % 256, (i \div 256) % 256, i % 256>>]

Inputs ==
    {<<"trade", t, <<>>>> : t \in Trades}
    \cup {<<"order", o, <<>>>> : o \in Orders}
    \cup {<<"ticker", t, <<>>>> : t \in Ticks}
    \cup {<<"order_book", b, Vols(b.num_ticks, 200)>> : b \in OrderBooks}

\* A record (and its volumes) is about to be encoded.
InitCodec ==
    /\ hostLE \in BOOLEAN
    /\ \E x \in Inputs : kind = x[1] /\ rec = x[2] /\ volumes = x[3]
    /\ cpc = "start"
    /\ packed = <<>>
    /\ pack_len = 0
    /\ input_len = 0
    /\ out = <<>>
    /\ out_volumes = <<>>
    /\ unpack_len = 0
    /\ overread = 0
    /\ RecvIdle
    /\ SendIdle

NextCodec ==
    \/ PackTrade \/ PackOrder \/ PackTicker \/ PackOrderBook
    \/ UnpackTrade \/ UnpackOrder \/ UnpackTicker \/ UnpackOrderBook

SpecCodec == InitCodec /\ [][NextCodec]_vars

\* ===================================================== the reader's claims

\* The length of the message the peer sent.
Total(w) ==
    IF w.tag = MITCH_MSG_TYPE_ORDER_BOOK
    THEN 8 + 32 + 4 * w.num_ticks
    ELSE 8 + 32 * w.count

WellFormed(w) ==
    \/ w.tag \in {MITCH_MSG_TYPE_TRADE, MITCH_MSG_TYPE_ORDER, MITCH_MSG_TYPE_TICKER}
    \/ w.tag = MITCH_MSG_TYPE_ORDER_BOOK /\ w.count = 1

\* The latest recv() returned no byte.
Failed == received # <<>> /\ received[1] <= 0

Min(a, b) == IF a < b THEN a ELSE b

\* Memory holds exactly the first n bytes of the stream, in order, and nothing
\* else has been stored.
HoldsStream(buf, w, n) ==
    /\ buf = IF n = 0 THEN <<>> ELSE <<[dst |-> 0, src |-> 0, len |-> n]>>
    /\ \A i \in 0..(Min(n, HeaderSize + PrefixSize + 8) - 1) :
          \A g \in GarbageBytes : BufAt(buf, w, g, i) = StreamByte(w, i)

\* C1.  A well-formed message that fits buffer_size, however recv() splits it
\* (no recv() failing): the call returns 8 + body_len, the buffer holds the
\* message's bytes in order, and exactly those bytes have left the stream.
C1_Framing ==
    (pc = "done" /\ WellFormed(wire) /\ Total(wire) <= buffer_size /\ ~Failed)
        => /\ result = Total(wire)
           /\ HoldsStream(buffer, wire, Total(wire))
           /\ consumed = Total(wire)

\* A 40-byte trade message delivered in at least four recv() results.
C1_Witness ==
    /\ pc = "done" /\ wire.tag = MITCH_MSG_TYPE_TRADE /\ wire.count = 1
    /\ nshort = MaxShortReads /\ ~Failed /\ result = 40 /\ buffer_size = 40

\* C2.  A message that is no order book and whose 8 + 32*count bytes exceed
\* buffer_size >= 8: once its header has arrived the call returns -2, having
\* taken 8 bytes from the stream and stored only the header.
C2_BufferTooSmall ==
    (/\ pc = "done" /\ consumed >= HeaderSize
     /\ wire.tag # MITCH_MSG_TYPE_ORDER_BOOK
     /\ HeaderSize <= buffer_size /\ buffer_size < 8 + 32 * wire.count)
        => /\ result = 0 - 2
           /\ consumed = HeaderSize
           /\ HoldsStream(buffer, wire, HeaderSize)

\* buffer_size = 39 and a 40-byte trade message.
C2_Witness ==
    /\ pc = "done" /\ wire.tag = MITCH_MSG_TYPE_TRADE /\ wire.count = 1
    /\ buffer_size = 39 /\ result = 0 - 2 /\ consumed = 8

\* C3.  A header with tag 'q' and count # 1: the call returns -3 with the 8
\* header bytes taken from the stream, and never starts to read the prefix or
\* the volumes.
C3_OrderBookCount ==
    (header.message_type = MITCH_MSG_TYPE_ORDER_BOOK /\ header.count # 1)
        => /\ pc = "done"
           /\ result = 0 - 3
           /\ consumed = HeaderSize

C3_Witness ==
    /\ header.message_type = MITCH_MSG_TYPE_ORDER_BOOK /\ header.count = 255
    /\ pc = "done" /\ result = 0 - 3 /\ nshort > 0

\* C5.  A recv() that returns zero bytes or an error, in any stage, ends the
\* call with -1 and nothing more is read; a length is returned only for a
\* message received in full.
C5_TransportFailure ==
    /\ Failed => (pc = "done" /\ result = 0 - 1 /\ ~ENABLED NextRecv)
    /\ (pc = "done" /\ result >= 0)
          => (~Failed /\ consumed = result /\ HoldsStream(buffer, wire, result)
              /\ result = 8 + body_size)

\* The stream ends inside an order book's volumes.
C5_Witness ==
    /\ Failed /\ pc = "done" /\ result = 0 - 1
    /\ consumed > HeaderSize + PrefixSize
    /\ header.message_type = MITCH_MSG_TYPE_ORDER_BOOK

\* C6.  An order book with count 1 whose prefix has arrived: body_size is
\* 32 + 4*num_ticks for the big-endian num_ticks of bytes 24-25, the call
\* returns -2 exactly when 8 + body_size > buffer_size (no volume read), and
\* otherwise reads 4*num_ticks more bytes and returns 8 + body_size.
C6_OrderBookLength ==
    (/\ pc = "done" /\ consumed >= HeaderSize + PrefixSize
     /\ wire.tag = MITCH_MSG_TYPE_ORDER_BOOK /\ wire.count = 1)
        => LET body_len == 32 + 4 * wire.num_ticks
           IN  /\ body_size = body_len
               /\ (result = 0 - 2) <=> (8 + body_len > buffer_size)
               /\ (8 + body_len > buffer_size) => consumed = HeaderSize + PrefixSize
               /\ (8 + body_len <= buffer_size /\ ~Failed)
                     => (result = 8 + body_len /\ consumed = 8 + 32 + 4 * wire.num_ticks)

\* num_ticks = 65535 received in full: 262180 bytes.
C6_Witness ==
    /\ pc = "done" /\ wire.tag = MITCH_MSG_TYPE_ORDER_BOOK /\ wire.num_ticks = 65535
    /\ result = 262180 /\ consumed = 262180

\* C6, the other side: num_ticks = 65535 and one byte too few.
C6_WitnessTooSmall ==
    /\ pc = "done" /\ wire.tag = MITCH_MSG_TYPE_ORDER_BOOK /\ wire.num_ticks = 65535
    /\ buffer_size = 262179 /\ result = 0 - 2

\* C10.  Every byte the reader stores goes to an offset below buffer_size.
C10_StoresWithinBuffer ==
    \A k \in 1..Len(buffer) : buffer[k].dst + buffer[k].len <= buffer_size

\* ===================================================== the writer's claims

\* The latest send() accepted no byte.
SendHasFailed == sent # <<>> /\ sent[1] <= 0

C4_Safety ==
    /\ accepted = [i \in 1..total_sent |-> DataByte(i - 1)]
    /\ total_sent <= slength
    /\ SendHasFailed => (spc = "done" /\ sresult = 0 - 1)
    /\ spc = "done" => (sresult = 0 \/ (sresult = 0 - 1 /\ SendHasFailed))
    /\ (spc = "done" /\ sresult = 0)
          => (total_sent = slength /\ Len(accepted) = slength)

\* C4.  The writer returns 0 only when the stream has accepted every byte of
\* the buffer, in order and once; it offers the unsent rest after a partial
\* send, returns -1 as soon as a send fails or accepts nothing, and ends.
C4_WriterAllOrError == [](C4_Safety) /\ <>(spc = "done")

\* Success after a partial send.
C4_Witness ==
    /\ spc = "done" /\ sresult = 0 /\ slength = MaxSendLen
    /\ sent[1] < slength

\* ===================================================== the codecs' claims

\* The decoder was handed every byte the encoder wrote.
FullInput == cpc = "unpacked" /\ input_len = Len(packed)

\* C7.  Decoding what was encoded gives the record back in every field that
\* is not reserved, the volumes back in order, and both directions return 32
\* (Trade, Order, Tick) or 32 + 4*num_ticks (OrderBook).
C7_RoundTrip ==
    FullInput =>
        /\ pack_len = unpack_len
        /\ pack_len = Len(packed)
        /\ kind = "trade" =>
              /\ pack_len = 32
              /\ \A f \in {"ticker_id", "price", "quantity", "trade_id", "side"} :
                    out[f] = rec[f]
        /\ kind = "order" =>
              /\ pack_len = 32
              /\ \A f \in {"ticker_id", "order_id", "price", "quantity",
                           "type_and_side", "expiry"} : out[f] = rec[f]
        /\ kind = "ticker" =>
              /\ pack_len = 32
              /\ out = rec
        /\ kind = "order_book" =>
              /\ pack_len = 32 + 4 * rec.num_ticks
              /\ \A f \in {"ticker_id", "first_tick", "tick_size", "num_ticks", "side"} :
                    out[f] = rec[f]
              /\ out_volumes = volumes

\* An order book of 500 volumes has made the round trip on a little-endian
\* host (the book of 65535 volumes is among the inputs as well).
C7_Witness ==
    /\ FullInput /\ kind = "order_book" /\ rec.num_ticks = 500 /\ hostLE
    /\ Len(out_volumes) = 500 /\ unpack_len = 2032

\* C7, a fixed record: a trade has made the round trip.
C7_WitnessTrade ==
    /\ FullInput /\ kind = "trade" /\ out.trade_id = <<0, 0, 48, 57>>
    /\ out.quantity = <<0, 15, 66, 64>>

\* C8.  Every reserved byte an encoder writes is zero: bytes 25-31 of a
\* Trade, byte 31 of an Order, bytes 27-31 of an OrderBook prefix.
C8_ReservedZero ==
    cpc = "packed" =>
        /\ kind = "trade" => \A i \in 25..31 : packed[i + 1] = 0
        /\ kind = "order" => packed[31 + 1] = 0
        /\ kind = "order_book" => \A i \in 27..31 : packed[i + 1] = 0

\* C9.  unpack_order_book_body handed fewer than 32 + 4*num_ticks bytes
\* reports an error and reads no byte past its input.
C9_DecodeBounded ==
    (/\ cpc \in {"unpacked", "fault"} /\ kind = "order_book"
     /\ input_len < 32 + 4 * rec.num_ticks)
        => (cpc = "unpacked" /\ unpack_len < 0 /\ overread = 0)

====
